---- MODULE Spec2Model ----
(***************************************************************************)
(* A model of the Tedo Go client: the transport core (Client.request),     *)
(* the error taxonomy (Error, parseError, IsNotFound, IsValidationError,   *)
(* IsUnauthorized) and the billing accessors that delegate to it.          *)
(*                                                                         *)
(* A JSON text is modelled by the document it denotes (its syntax tree),   *)
(* or, for a text that is not JSON, by the text itself; Raw gives the      *)
(* bytes back.  json.Unmarshal and json.Marshal are modelled on these      *)
(* documents, field by field, from the struct tags of the source.          *)
(***************************************************************************)
EXTENDS Integers, Sequences, FiniteSets, TLC

VARIABLES
    client,        \* the *Client: apiKey, baseURL, httpClient
    pc,            \* where the caller is
    call,          \* the accessor call in progress
    req,           \* the *http.Request handed to httpClient.Do
    doCalls,       \* how often httpClient.Do was called by the invocation
    resp,          \* what the transport gave back
    ret,           \* what the accessor returned: value, err, and request's trace
    customers,     \* the server's ordered list of customers
    pageLimit,     \* the Limit the pagination loop asks for
    cursor,        \* the pagination loop's cursor
    allCustomers,  \* the pagination loop's allCustomers
    requests,      \* requests the pagination loop has issued
    errArg,        \* an error value handed to the classification helpers
    verdict,       \* what the three helpers answered for errArg
    flights        \* the calls several goroutines have in flight on the client

callVars == <<client, pc, call, req, doCalls, resp, ret>>
loopVars == <<customers, pageLimit, cursor, allCustomers, requests>>
errVars  == <<errArg, verdict>>
vars     == <<client, pc, call, req, doCalls, resp, ret,
              customers, pageLimit, cursor, allCustomers, requests,
              errArg, verdict, flights>>

None == [none |-> TRUE]

(***************************************************************************)
(* JSON documents                                                          *)
(***************************************************************************)
JInvalid(text) == [t |-> "invalid", raw |-> text]
JNull          == [t |-> "null"]
JNum(n)        == [t |-> "num", v |-> n]
JStr(s)        == [t |-> "str", v |-> s]
JArr(items)    == [t |-> "arr", v |-> items]
JObj(members)  == [t |-> "obj", v |-> members]

\* The keys the model's documents use, in the order they are written: for
\* the members of a struct, the order of its fields.
KeyOrder ==
    << "id", "key", "email", "name", "description", "is_active",
       "external_id", "customer_id", "entitlement_key", "price_id",
       "plan_key", "price_key", "subscription_id", "product_key", "quantity",
       "timestamp", "idempotency_key", "metadata", "tier", "status",
       "has_access", "plan_name", "total_usage", "code", "message", "field",
       "error", "customers", "total", "next_cursor" >>

RECURSIVE Raw(_), RawItems(_, _), RawMembers(_, _, _)
\* The bytes of a document: string(body) of a []byte read from the wire.
Raw(d) ==
    CASE d.t = "invalid" -> d.raw
      [] d.t = "null"    -> "null"
      [] d.t = "num"     -> ToString(d.v)
      [] d.t = "bool"    -> IF d.v THEN "true" ELSE "false"
      [] d.t = "str"     -> "\"" \o d.v \o "\""
      [] d.t = "arr"     -> "[" \o RawItems(d.v, 1) \o "]"
      [] d.t = "obj"     -> "{" \o RawMembers(d.v, 1, TRUE) \o "}"

RawItems(s, i) ==
    IF i > Len(s) THEN ""
    ELSE (IF i > 1 THEN "," ELSE "") \o Raw(s[i]) \o RawItems(s, i + 1)

RawMembers(m, i, first) ==
    IF i > Len(KeyOrder) THEN ""
    ELSE IF KeyOrder[i] \in DOMAIN m
         THEN (IF first THEN "" ELSE ",") \o "\"" \o KeyOrder[i] \o "\":"
              \o Raw(m[KeyOrder[i]]) \o RawMembers(m, i + 1, FALSE)
         ELSE RawMembers(m, i + 1, first)

JBool(b) == [t |-> "bool", v |-> b]

\* Member key k of document d is present.
HasKey(d, k) == d.t = "obj" /\ k \in DOMAIN d.v

\* json.Unmarshal into a struct whose tagged fields are schema (key -> JSON
\* type): a syntax error for a text that is not JSON, a type error for a
\* JSON value that is no object (null excepted: it is a no-op) and for a
\* member of the wrong type (null excepted again).
UnmarshalFails(d, schema) ==
    \/ d.t \notin {"null", "obj"}
    \/ /\ d.t = "obj"
       /\ \E k \in DOMAIN schema :
             /\ k \in DOMAIN d.v
             /\ d.v[k].t \notin {schema[k], "null"}

\* The value json.Unmarshal leaves in a string field tagged k that held old.
StringField(d, k, old) ==
    IF HasKey(d, k) /\ d.v[k].t = "str" THEN d.v[k].v ELSE old

(***************************************************************************)
(* Errors                                                                  *)
(***************************************************************************)
NilError == [type |-> "nil"]

\* type Error struct, as the zero value of `var apiErr Error`.
ZeroError == [StatusCode |-> 0, Code |-> "", Message |-> "", Field |-> ""]

ErrorSchema == [code |-> "str", message |-> "str", field |-> "str"]

\* An error interface value holding a non-nil *Error.
APIError(e) ==
    [type |-> "*Error", isNil |-> FALSE, StatusCode |-> e.StatusCode,
     Code |-> e.Code, Message |-> e.Message, Field |-> e.Field]

\* An error interface value holding a nil *Error pointer.
NilAPIError == [type |-> "*Error", isNil |-> TRUE]

\* fmt.Errorf("<prefix>: %w", inner)
Wrap(prefix, inner) == [type |-> "*fmt.wrapError", msg |-> prefix, err |-> inner]

\* An error of the transport (a *url.Error from httpClient.Do, an error of
\* io.ReadAll, of json, of http.NewRequestWithContext).
OtherError(text) == [type |-> "other", msg |-> text]

\* json.Unmarshal(body, &apiErr) with the tags of Code and Message exchanged.
UnmarshalError_TagsExchanged(body, apiErr) ==
    IF body.t # "obj" THEN apiErr
    ELSE [apiErr EXCEPT !.Code    = StringField(body, "message", @),
                        !.Message = StringField(body, "code", @),
                        !.Field   = StringField(body, "field", @)]

\* json.Unmarshal(body, &apiErr), StatusCode being tagged json:"-".
UnmarshalError(body, apiErr) ==
    IF body.t # "obj" THEN apiErr
    ELSE [apiErr EXCEPT !.Code    = StringField(body, "code", @),
                        !.Message = StringField(body, "message", @),
                        !.Field   = StringField(body, "field", @)]

\* parseError without `apiErr.StatusCode = statusCode`.
parseError_StatusDropped(statusCode, body) ==
    APIError(IF UnmarshalFails(body, ErrorSchema)
             THEN [ZeroError EXCEPT !.Code = "unknown_error", !.Message = Raw(body)]
             ELSE UnmarshalError(body, ZeroError))

parseError(statusCode, body) ==
    LET apiErr == IF UnmarshalFails(body, ErrorSchema)
                  THEN [ZeroError EXCEPT !.Code = "unknown_error",
                                         !.Message = Raw(body)]
                  ELSE UnmarshalError(body, ZeroError)
    IN  APIError([apiErr EXCEPT !.StatusCode = statusCode])

\* What a call of a helper does: it returns a boolean, or it panics.
Returns(b) == [panics |-> FALSE, value |-> b]
Panics     == [panics |-> TRUE, value |-> FALSE]

\* `if e, ok := err.(*Error); ok { return e.StatusCode == code }; return false`
\* The assertion succeeds for a nil *Error too, and e.StatusCode then
\* dereferences nil.
StatusIs(err, code) ==
    IF err.type = "*Error"
    THEN IF err.isNil THEN Panics ELSE Returns(err.StatusCode = code)
    ELSE Returns(FALSE)

\* IsNotFound comparing with 400.
IsNotFound_BadRequest(err) == StatusIs(err, 400)

IsNotFound(err)        == StatusIs(err, 404)
IsValidationError(err) == StatusIs(err, 400)
IsUnauthorized(err)    == StatusIs(err, 401)

(***************************************************************************)
(* Client                                                                  *)
(***************************************************************************)
defaultBaseURL == "https://api.tedo.ai/v1"
defaultTimeout == 30

\* The address of the Client that NewClient allocates (`c := &Client{...}`).
ClientAddr == "&Client"

NewClient(apiKey) ==
    [apiKey |-> apiKey, baseURL |-> defaultBaseURL,
     httpClient |-> [Timeout |-> defaultTimeout],
     Billing |-> [client |-> ClientAddr]]

(***************************************************************************)
(* Go values of the accessors' parameters and results                      *)
(***************************************************************************)
\* Pointers (*string, *bool, *time.Time) and maps.
Nil        == [isNil |-> TRUE]
Ptr(x)     == [isNil |-> FALSE, v |-> x]
Deref(p, zero) == IF p.isNil THEN zero ELSE p.v
NilMap     == [isNil |-> TRUE, kv |-> <<>>]
MapOf(kv)  == [isNil |-> FALSE, kv |-> kv]     \* kv: a sequence of <<key, value>>

\* A nil params pointer (still a non-nil `any` when passed as body).
NilParams  == [nilPointer |-> TRUE]
\* A nil result pointer returned by an accessor.
NilValue   == [nilPointer |-> TRUE]

\* The body argument of request: the untyped nil, or a params pointer.
NoBody          == [supplied |-> FALSE]
Body(kind, p)   == [supplied |-> TRUE, kind |-> kind, params |-> p]
\* The result argument of request: the untyped nil, or a pointer to a
\* result variable of a struct type holding value.
NoResult        == [supplied |-> FALSE]
Result(kind, x) == [supplied |-> TRUE, kind |-> kind, value |-> x]

ZeroCustomer     == [ID |-> "", Email |-> ""]
ZeroPlan         == [ID |-> "", Key |-> ""]
ZeroUsageRecord  == [ID |-> ""]
ZeroCustomerList == [Customers |-> <<>>, Total |-> 0, NextCursor |-> ""]
ZeroSubscription     == [ID |-> "", Status |-> ""]
ZeroEntitlementCheck == [HasAccess |-> FALSE, PlanName |-> ""]
ZeroUsageSummary     == [SubscriptionID |-> "", TotalUsage |-> 0]

CustomerSchema     == [id |-> "str", email |-> "str"]
PlanSchema         == [id |-> "str", key |-> "str"]
UsageRecordSchema  == [id |-> "str"]
CustomerListSchema == [customers |-> "arr", total |-> "num", next_cursor |-> "str"]
SubscriptionSchema     == [id |-> "str", status |-> "str"]
EntitlementCheckSchema == [has_access |-> "bool", plan_name |-> "str"]
UsageSummarySchema     == [subscription_id |-> "str", total_usage |-> "num"]

Schema(kind) ==
    CASE kind = "Customer"     -> CustomerSchema
      [] kind = "Plan"         -> PlanSchema
      [] kind = "UsageRecord"  -> UsageRecordSchema
      [] kind = "CustomerList" -> CustomerListSchema
      [] kind = "Subscription" -> SubscriptionSchema
      [] kind = "EntitlementCheck" -> EntitlementCheckSchema
      [] kind = "UsageSummary" -> UsageSummarySchema

\* json.Unmarshal(d, &customer): the members of the right type are stored,
\* the others leave their field as it was.
UnmarshalCustomer(d, old) ==
    IF d.t # "obj" THEN old
    ELSE [old EXCEPT !.ID    = StringField(d, "id", @),
                     !.Email = StringField(d, "email", @)]

UnmarshalPlan(d, old) ==
    IF d.t # "obj" THEN old
    ELSE [old EXCEPT !.ID  = StringField(d, "id", @),
                     !.Key = StringField(d, "key", @)]

UnmarshalUsageRecord(d, old) ==
    IF d.t # "obj" THEN old
    ELSE [old EXCEPT !.ID = StringField(d, "id", @)]

UnmarshalCustomerList(d, old) ==
    IF d.t # "obj" THEN old
    ELSE [old EXCEPT
            !.Customers  = IF HasKey(d, "customers") /\ d.v["customers"].t = "arr"
                           THEN [i \in 1..Len(d.v["customers"].v) |->
                                   UnmarshalCustomer(d.v["customers"].v[i], ZeroCustomer)]
                           ELSE @,
            !.Total      = IF HasKey(d, "total") /\ d.v["total"].t = "num"
                           THEN d.v["total"].v ELSE @,
            !.NextCursor = StringField(d, "next_cursor", @)]

UnmarshalSubscription(d, old) ==
    IF d.t # "obj" THEN old
    ELSE [old EXCEPT !.ID     = StringField(d, "id", @),
                     !.Status = StringField(d, "status", @)]

UnmarshalEntitlementCheck(d, old) ==
    IF d.t # "obj" THEN old
    ELSE [old EXCEPT
            !.HasAccess = IF HasKey(d, "has_access") /\ d.v["has_access"].t = "bool"
                          THEN d.v["has_access"].v ELSE @,
            !.PlanName  = StringField(d, "plan_name", @)]

UnmarshalUsageSummary(d, old) ==
    IF d.t # "obj" THEN old
    ELSE [old EXCEPT
            !.SubscriptionID = StringField(d, "subscription_id", @),
            !.TotalUsage     = IF HasKey(d, "total_usage") /\ d.v["total_usage"].t = "num"
                               THEN d.v["total_usage"].v ELSE @]

\* json.Unmarshal(respBody, result) returns an error.
DecodeFails(d, kind) ==
    \/ UnmarshalFails(d, Schema(kind))
    \/ /\ kind = "CustomerList"
       /\ HasKey(d, "customers")
       /\ d.v["customers"].t = "arr"
       /\ \E i \in 1..Len(d.v["customers"].v) :
             UnmarshalFails(d.v["customers"].v[i], CustomerSchema)

\* What json.Unmarshal(respBody, result) leaves in *result.
Decode(d, kind, old) ==
    CASE kind = "Customer"     -> UnmarshalCustomer(d, old)
      [] kind = "Plan"         -> UnmarshalPlan(d, old)
      [] kind = "UsageRecord"  -> UnmarshalUsageRecord(d, old)
      [] kind = "CustomerList" -> UnmarshalCustomerList(d, old)
      [] kind = "Subscription" -> UnmarshalSubscription(d, old)
      [] kind = "EntitlementCheck" -> UnmarshalEntitlementCheck(d, old)
      [] kind = "UsageSummary" -> UnmarshalUsageSummary(d, old)

(***************************************************************************)
(* json.Marshal of the params structs                                      *)
(***************************************************************************)
\* The object with the members <<key, included, value>> that are included.
Members(fields) ==
    LET kept == {f \in fields : f[2]}
    IN  [k \in {f[1] : f \in kept} |-> (CHOOSE f \in kept : f[1] = k)[3]]

\* A map[string]string as a JSON object.
MapDoc(kv) ==
    JObj([k \in {kv[i][1] : i \in 1..Len(kv)} |->
            JStr((CHOOSE e \in {kv[i] : i \in 1..Len(kv)} : e[1] = k)[2])])

\* type UpdateCustomerParams: three *string and a map, all omitempty.
MarshalUpdateCustomerParams(p) ==
    JObj(Members({
        <<"email",       ~p.Email.isNil,           JStr(Deref(p.Email, ""))>>,
        <<"name",        ~p.Name.isNil,            JStr(Deref(p.Name, ""))>>,
        <<"external_id", ~p.ExternalID.isNil,      JStr(Deref(p.ExternalID, ""))>>,
        <<"metadata",    Len(p.Metadata.kv) > 0,   MapDoc(p.Metadata.kv)>> }))

\* type UpdatePlanParams: three *string and a *bool, all omitempty.
MarshalUpdatePlanParams(p) ==
    JObj(Members({
        <<"key",         ~p.Key.isNil,         JStr(Deref(p.Key, ""))>>,
        <<"name",        ~p.Name.isNil,        JStr(Deref(p.Name, ""))>>,
        <<"description", ~p.Description.isNil, JStr(Deref(p.Description, ""))>>,
        <<"is_active",   ~p.IsActive.isNil,    JBool(Deref(p.IsActive, FALSE))>> }))

\* CreateCustomerParams with every field written whatever its value.
MarshalCreateCustomerParams_NoOmitEmpty(p) ==
    JObj([email       |-> JStr(p.Email),
          name        |-> JStr(p.Name),
          external_id |-> JStr(p.ExternalID),
          metadata    |-> MapDoc(p.Metadata.kv)])

\* type CreateCustomerParams: email, and name, external_id and metadata
\* with omitempty.
MarshalCreateCustomerParams(p) ==
    JObj(Members({
        <<"email",       TRUE,                   JStr(p.Email)>>,
        <<"name",        p.Name # "",            JStr(p.Name)>>,
        <<"external_id", p.ExternalID # "",      JStr(p.ExternalID)>>,
        <<"metadata",    Len(p.Metadata.kv) > 0, MapDoc(p.Metadata.kv)>> }))

\* type CreateSubscriptionParams: customer_id, and the rest with omitempty.
MarshalCreateSubscriptionParams(p) ==
    JObj(Members({
        <<"customer_id", TRUE,                   JStr(p.CustomerID)>>,
        <<"price_id",    p.PriceID # "",         JStr(p.PriceID)>>,
        <<"plan_key",    p.PlanKey # "",         JStr(p.PlanKey)>>,
        <<"price_key",   p.PriceKey # "",        JStr(p.PriceKey)>>,
        <<"quantity",    p.Quantity # 0,         JNum(p.Quantity)>>,
        <<"metadata",    Len(p.Metadata.kv) > 0, MapDoc(p.Metadata.kv)>> }))

\* type CheckEntitlementParams.
MarshalCheckEntitlementParams(p) ==
    JObj([customer_id     |-> JStr(p.CustomerID),
          entitlement_key |-> JStr(p.EntitlementKey)])

\* A time.Time: its year, and its RFC 3339 text.
ZeroTime == [year |-> 1, text |-> "0001-01-01T00:00:00Z"]

\* time.Time.MarshalJSON fails for a year outside [0,9999].
TimeMarshals(t) == t.year >= 0 /\ t.year <= 9999

\* type RecordUsageParams.
MarshalRecordUsageParams(p) ==
    JObj(Members({
        <<"subscription_id", TRUE,                  JStr(p.SubscriptionID)>>,
        <<"product_key",     p.ProductKey # "",     JStr(p.ProductKey)>>,
        <<"quantity",        TRUE,                  JNum(p.Quantity)>>,
        <<"timestamp",       ~p.Timestamp.isNil,    JStr(Deref(p.Timestamp, ZeroTime).text)>>,
        <<"idempotency_key", p.IdempotencyKey # "", JStr(p.IdempotencyKey)>> }))

\* json.Marshal(body) returns an error.
MarshalFails(body) ==
    /\ body.params # NilParams
    /\ body.kind = "RecordUsageParams"
    /\ ~body.params.Timestamp.isNil
    /\ ~TimeMarshals(body.params.Timestamp.v)

\* json.Marshal(body): a nil pointer of any struct type marshals as null.
Marshal(body) ==
    IF body.params = NilParams THEN JNull
    ELSE CASE body.kind = "UpdateCustomerParams" -> MarshalUpdateCustomerParams(body.params)
           [] body.kind = "UpdatePlanParams"     -> MarshalUpdatePlanParams(body.params)
           [] body.kind = "RecordUsageParams"    -> MarshalRecordUsageParams(body.params)
           [] body.kind = "CreateCustomerParams" -> MarshalCreateCustomerParams(body.params)
           [] body.kind = "CreateSubscriptionParams" ->
                  MarshalCreateSubscriptionParams(body.params)
           [] body.kind = "CheckEntitlementParams" ->
                  MarshalCheckEntitlementParams(body.params)

(***************************************************************************)
(* Client.request                                                          *)
(***************************************************************************)
\* http.NewRequestWithContext returns an error: a nil context, or a URL that
\* url.Parse rejects (an invalid escape such as %zz in an interpolated id).
BadEscape == "cus%zz"
NewRequestFails(ctx, url) ==
    \/ ctx = "nil"
    \/ \E i \in 1..Len(url) : url[i] = BadEscape

\* Calls of httpClient.Do made by request once the request is built (or not).
DoCallsOf(built) == IF built THEN 1 ELSE 0

\* request up to and including the call of httpClient.Do: the error it
\* returns before that call, or the request handed to the transport.
RequestSend(c, ctx, method, path, body) ==
    IF body.supplied /\ MarshalFails(body)
    THEN [err |-> Wrap("marshal request body", OtherError("json: error calling MarshalJSON")),
          req |-> None, do |-> DoCallsOf(FALSE)]
    ELSE IF NewRequestFails(ctx, <<c.baseURL>> \o path)
    THEN [err |-> Wrap("create request", OtherError("net/http: invalid request")),
          req |-> None, do |-> DoCallsOf(FALSE)]
    ELSE [err |-> NilError,
          req |-> [method        |-> method,
                   url           |-> <<c.baseURL>> \o path,
                   Authorization |-> "Bearer " \o c.apiKey,
                   ContentType   |-> "application/json",
                   Accept        |-> "application/json",
                   via           |-> c.httpClient,
                   body          |-> IF body.supplied THEN Marshal(body) ELSE None],
          do  |-> DoCallsOf(TRUE)]

\* What the transport does with a request: httpClient.Do fails, or it gives
\* a response whose body io.ReadAll fails on, or a response with a body.
DoError(e)         == [kind |-> "doError", err |-> e]
ReadError(s, e)    == [kind |-> "readError", status |-> s, err |-> e]
Response(s, body)  == [kind |-> "response", status |-> s, body |-> body]

\* A request that calls httpClient.Do again when it has failed.
Retries_OnFailure(o) == IF o.kind = "doError" THEN 1 ELSE 0

\* Calls of httpClient.Do that request adds once the first has returned o:
\* every outcome is returned to the caller, no branch calls Do again.
Retries(o) == 0

\* `if resp.StatusCode > 400`
IsErrorStatus_Strict(status) == status > 400

\* `if resp.StatusCode >= 400`
IsErrorStatus(status) == status >= 400

\* `if result != nil`
ShouldDecode_IgnoringEmpty(result, body) == result.supplied

\* `if result != nil && len(respBody) > 0`
ShouldDecode(result, body) == result.supplied /\ Len(Raw(body)) > 0

\* A decode failure reported through parseError.
DecodeError_AsAPIError(status, body) == parseError(status, body)

\* The error request returns when json.Unmarshal of a success body fails.
DecodeError(status, body) ==
    Wrap("decode response", OtherError("json: cannot unmarshal"))

\* request from the return of httpClient.Do on: the error returned, the
\* result argument as it is left, and whether json.Unmarshal was applied to it.
RequestReceive(o, result) ==
    IF o.kind = "doError"
    THEN [err |-> Wrap("do request", o.err), result |-> result, decoded |-> FALSE]
    ELSE IF o.kind = "readError"
    THEN [err |-> Wrap("read response", o.err), result |-> result, decoded |-> FALSE]
    ELSE IF IsErrorStatus(o.status)
    THEN [err |-> parseError(o.status, o.body), result |-> result, decoded |-> FALSE]
    ELSE IF ShouldDecode(result, o.body)
    THEN [err     |-> IF DecodeFails(o.body, result.kind)
                      THEN DecodeError(o.status, o.body) ELSE NilError,
          result  |-> [result EXCEPT !.value = Decode(o.body, result.kind, @)],
          decoded |-> TRUE]
    ELSE [err |-> NilError, result |-> result, decoded |-> FALSE]

(***************************************************************************)
(* BillingService accessors (the /billing/v1 surface)                      *)
(***************************************************************************)
Call(op, ctx, method, path, body, result) ==
    [op |-> op, ctx |-> ctx, method |-> method, path |-> path,
     body |-> body, result |-> result]

\* An accessor call that builds its path from params: the call, and the
\* params it was given.
CallWith(params, c) == c @@ [args |-> params]

GetCustomer(ctx, id) ==
    Call("GetCustomer", ctx, "GET", <<"/billing/v1/customers/", id>>,
         NoBody, Result("Customer", ZeroCustomer))

UpdateCustomer(ctx, id, params) ==
    Call("UpdateCustomer", ctx, "PATCH", <<"/billing/v1/customers/", id>>,
         Body("UpdateCustomerParams", params), Result("Customer", ZeroCustomer))

DeleteCustomer(ctx, id) ==
    Call("DeleteCustomer", ctx, "DELETE", <<"/billing/v1/customers/", id>>,
         NoBody, NoResult)

UpdatePlan(ctx, id, params) ==
    Call("UpdatePlan", ctx, "PATCH", <<"/billing/v1/plans/", id>>,
         Body("UpdatePlanParams", params), Result("Plan", ZeroPlan))

RecordUsage(ctx, params) ==
    Call("RecordUsage", ctx, "POST", <<"/billing/v1/usage">>,
         Body("RecordUsageParams", params), Result("UsageRecord", ZeroUsageRecord))

\* ListCustomers' query with the & between limit and cursor left out.
ListCustomersQuery_NoSeparator(params) ==
    (IF params.Limit > 0 THEN <<"limit=", ToString(params.Limit)>> ELSE <<>>)
    \o (IF params.Cursor # "" THEN <<"cursor=", params.Cursor>> ELSE <<>>)

\* ListCustomers' path: limit=<n> when Limit > 0, cursor=<c> when Cursor is
\* not empty, joined by & and introduced by ?.
ListCustomersQuery(params) ==
    LET q1 == IF params.Limit > 0 THEN <<"limit=", ToString(params.Limit)>> ELSE <<>>
        q2 == IF params.Cursor # ""
              THEN (IF q1 # <<>> THEN <<"&">> ELSE <<>>) \o <<"cursor=", params.Cursor>>
              ELSE <<>>
    IN  q1 \o q2

ListCustomersPath(params) ==
    IF params = NilParams THEN <<"/billing/v1/customers">>
    ELSE IF ListCustomersQuery(params) # <<>>
         THEN <<"/billing/v1/customers", "?">> \o ListCustomersQuery(params)
         ELSE <<"/billing/v1/customers">>

ListCustomers(ctx, params) ==
    CallWith(params,
        Call("ListCustomers", ctx, "GET", ListCustomersPath(params),
             NoBody, Result("CustomerList", ZeroCustomerList)))

CreateCustomer(ctx, params) ==
    Call("CreateCustomer", ctx, "POST", <<"/billing/v1/customers">>,
         Body("CreateCustomerParams", params), Result("Customer", ZeroCustomer))

CreateSubscription(ctx, params) ==
    Call("CreateSubscription", ctx, "POST", <<"/billing/v1/subscriptions">>,
         Body("CreateSubscriptionParams", params),
         Result("Subscription", ZeroSubscription))

CancelSubscription(ctx, id) ==
    Call("CancelSubscription", ctx, "DELETE", <<"/billing/v1/subscriptions/", id>>,
         NoBody, Result("Subscription", ZeroSubscription))

CheckEntitlement(ctx, params) ==
    Call("CheckEntitlement", ctx, "POST", <<"/billing/v1/entitlements/check">>,
         Body("CheckEntitlementParams", params),
         Result("EntitlementCheck", ZeroEntitlementCheck))

\* GetUsageSummary's path with product_key written whatever its value.
GetUsageSummaryPath_AlwaysProductKey(params) ==
    <<"/billing/v1/usage", "?", "subscription_id=", params.SubscriptionID,
      "&", "product_key=", params.ProductKey>>

\* GetUsageSummary's path: subscription_id=<id>, and &product_key=<k> when
\* ProductKey is not empty.
GetUsageSummaryPath(params) ==
    <<"/billing/v1/usage", "?", "subscription_id=", params.SubscriptionID>>
    \o (IF params.ProductKey # ""
        THEN <<"&", "product_key=", params.ProductKey>> ELSE <<>>)

\* GetUsageSummary of params that are not nil (params.SubscriptionID of a
\* nil params is a nil dereference: see CallGetUsageSummary).
GetUsageSummary(ctx, params) ==
    CallWith(params,
        Call("GetUsageSummary", ctx, "GET", GetUsageSummaryPath(params),
             NoBody, Result("UsageSummary", ZeroUsageSummary)))

\* An accessor that returns the pointer to its result variable whatever the
\* error.
AccessorReturn_ResultKept(c, r) ==
    [value   |-> IF ~c.result.supplied THEN [nilPointer |-> TRUE]
                 ELSE r.result.value,
     err     |-> r.err,
     result  |-> r.result,
     decoded |-> r.decoded]

\* `if err != nil { return nil, err }; return &x, nil`, and for the accessors
\* without a result `return s.client.request(...)`.
AccessorReturn(c, r) ==
    [value   |-> IF r.err # NilError \/ ~c.result.supplied THEN NilValue
                 ELSE r.result.value,
     err     |-> r.err,
     result  |-> r.result,
     decoded |-> r.decoded]

(***************************************************************************)
(* The inputs the model draws from                                         *)
(***************************************************************************)
APIKey      == "tedo_live_xxx"
Ctxs        == {"ctx", "nil"}
CustomerIDs == {"cus_1", BadEscape}
PlanIDs     == {"plan_1"}

Absent == [t |-> "absent"]

\* Objects over the keys of an error record.
ErrorObjects ==
    { JObj(Members({ <<"code",    c # Absent, c>>,
                     <<"message", m # Absent, m>>,
                     <<"field",   f # Absent, f>> })) :
        c \in {Absent, JStr("not_found"), JNum(42)},
        m \in {Absent, JStr("no such customer"), JNull},
        f \in {Absent, JStr("email")} }

\* Objects over the keys of a customer, one of them with an error's keys too.
CustomerObjects ==
    { JObj(Members({ <<"id",    i # Absent, i>>,
                     <<"email", e # Absent, e>>,
                     <<"code",  c # Absent, c>> })) :
        i \in {JStr("cus_1"), JNum(7)},
        e \in {Absent, JStr("a@b.com")},
        c \in {Absent, JStr("conflict")} }

ResponseBodies ==
    { JInvalid(""), JInvalid("upstream timed out"), JNull, JNum(42),
      JStr("oops"), JArr(<<>>), JObj([error |-> JStr("boom")]) }
    \cup ErrorObjects \cup CustomerObjects

Statuses == {200, 204, 399, 400, 401, 404, 500}

Outcomes ==
    { DoError(OtherError("dial tcp: i/o timeout")) }
    \cup { ReadError(s, OtherError("unexpected EOF")) : s \in {200, 404} }
    \cup { Response(s, b) : s \in Statuses, b \in ResponseBodies }

UpdateCustomerParamsValues ==
    { NilParams } \cup
    [ Email      : {Nil, Ptr(""), Ptr("a@b.com")},
      Name       : {Nil, Ptr("Acme")},
      ExternalID : {Nil, Ptr("user:7")},
      Metadata   : {NilMap, MapOf(<<>>), MapOf(<< <<"tier", "gold">> >>)} ]

UpdatePlanParamsValues ==
    { NilParams } \cup
    [ Key         : {Nil, Ptr("pro")},
      Name        : {Nil, Ptr("Pro")},
      Description : {Nil, Ptr("")},
      IsActive    : {Nil, Ptr(FALSE), Ptr(TRUE)} ]

RecordUsageParamsValues ==
    [ SubscriptionID : {"sub_1"},
      ProductKey     : {"", "api_calls"},
      Quantity       : {5},
      Timestamp      : {Nil, Ptr([year |-> 2024, text |-> "2024-01-01T00:00:00Z"]),
                        Ptr([year |-> 10000, text |-> ""])},
      IdempotencyKey : {""} ]

ListCustomersParamsValues ==
    { NilParams } \cup [ Limit : {-1, 0, 2}, Cursor : {"", "c2"} ]

SubscriptionIDs == {"sub_1", BadEscape}

CreateCustomerParamsValues ==
    { NilParams } \cup
    [ Email      : {"a@b.com"},
      Name       : {"", "Acme"},
      ExternalID : {"", "user:7"},
      Metadata   : {NilMap, MapOf(<<>>), MapOf(<< <<"tier", "gold">> >>)} ]

CreateSubscriptionParamsValues ==
    { NilParams } \cup
    [ CustomerID : {"cus_1"},
      PriceID    : {"", "price_1"},
      PlanKey    : {"", "free"},
      PriceKey   : {""},
      Quantity   : {0, 3},
      Metadata   : {NilMap} ]

CheckEntitlementParamsValues ==
    { NilParams } \cup
    [ CustomerID : {"cus_1"}, EntitlementKey : {"", "seats"} ]

GetUsageSummaryParamsValues ==
    { NilParams } \cup
    [ SubscriptionID : {"", "sub_1"}, ProductKey : {"", "api_calls"} ]

(***************************************************************************)
(* One accessor call at a time                                             *)
(***************************************************************************)
Idle ==
    /\ pc = "idle" /\ call = None /\ req = None /\ doCalls = 0
    /\ resp = None /\ ret = None

LoopAtRest ==
    /\ customers = <<>> /\ pageLimit = 0 /\ cursor = ""
    /\ allCustomers = <<>> /\ requests = 0

HelpersAtRest == errArg = NilError /\ verdict = None

\* No goroutine has started a call.
FlightsAtRest == flights = <<>>

Init ==
    /\ client = NewClient(APIKey)
    /\ Idle
    /\ LoopAtRest
    /\ HelpersAtRest
    /\ FlightsAtRest

\* The accessor is called: request runs up to httpClient.Do, or returns the
\* error of json.Marshal or http.NewRequestWithContext to the caller.
Begin(c) ==
    /\ pc = "idle"
    /\ LET s == RequestSend(client, c.ctx, c.method, c.path, c.body)
       IN  /\ call' = c
           /\ req' = s.req
           /\ doCalls' = s.do
           /\ resp' = None
           /\ IF s.err = NilError
              THEN pc' = "inflight" /\ ret' = None
              ELSE /\ pc' = "returned"
                   /\ ret' = AccessorReturn(c, [err |-> s.err, result |-> c.result,
                                                decoded |-> FALSE])
    /\ UNCHANGED <<client, loopVars, errVars, flights>>

CallGetCustomer ==
    \E ctx \in Ctxs, id \in CustomerIDs : Begin(GetCustomer(ctx, id))

CallUpdateCustomer ==
    \E ctx \in Ctxs, id \in CustomerIDs, p \in UpdateCustomerParamsValues :
        Begin(UpdateCustomer(ctx, id, p))

CallDeleteCustomer ==
    \E ctx \in Ctxs, id \in CustomerIDs : Begin(DeleteCustomer(ctx, id))

CallUpdatePlan ==
    \E ctx \in Ctxs, id \in PlanIDs, p \in UpdatePlanParamsValues :
        Begin(UpdatePlan(ctx, id, p))

CallRecordUsage ==
    \E ctx \in Ctxs, p \in RecordUsageParamsValues : Begin(RecordUsage(ctx, p))

CallListCustomers ==
    \E ctx \in Ctxs, p \in ListCustomersParamsValues : Begin(ListCustomers(ctx, p))

CallCreateCustomer ==
    \E ctx \in Ctxs, p \in CreateCustomerParamsValues : Begin(CreateCustomer(ctx, p))

CallCreateSubscription ==
    \E ctx \in Ctxs, p \in CreateSubscriptionParamsValues :
        Begin(CreateSubscription(ctx, p))

CallCancelSubscription ==
    \E ctx \in Ctxs, id \in SubscriptionIDs : Begin(CancelSubscription(ctx, id))

CallCheckEntitlement ==
    \E ctx \in Ctxs, p \in CheckEntitlementParamsValues :
        Begin(CheckEntitlement(ctx, p))

\* The accessor dereferences a nil params pointer before it calls request:
\* the goroutine panics, nothing is sent and nothing is returned.
NilDereference(op) ==
    /\ pc = "idle"
    /\ pc' = "panicked"
    /\ call' = [op |-> op, panicked |-> TRUE]
    /\ UNCHANGED <<client, req, doCalls, resp, ret, loopVars, errVars, flights>>

\* GetUsageSummary reads params.SubscriptionID with no nil check.
CallGetUsageSummary ==
    \E ctx \in Ctxs, p \in GetUsageSummaryParamsValues :
        IF p = NilParams THEN NilDereference("GetUsageSummary")
        ELSE Begin(GetUsageSummary(ctx, p))

\* httpClient.Do returns; request runs to its end and the accessor returns.
Complete ==
    /\ pc = "inflight"
    /\ \E o \in Outcomes :
          /\ resp' = o
          /\ ret' = AccessorReturn(call, RequestReceive(o, call.result))
          /\ doCalls' = doCalls + Retries(o)
    /\ pc' = "returned"
    /\ UNCHANGED <<client, call, req, loopVars, errVars, flights>>

\* The caller is done with the values returned; nothing is kept.
Forget ==
    /\ pc \in {"returned", "panicked"}
    /\ pc' = "idle" /\ call' = None /\ req' = None /\ doCalls' = 0
    /\ resp' = None /\ ret' = None
    /\ UNCHANGED <<client, loopVars, errVars, flights>>

Next ==
    \/ CallGetCustomer
    \/ CallUpdateCustomer
    \/ CallDeleteCustomer
    \/ CallUpdatePlan
    \/ CallRecordUsage
    \/ CallListCustomers
    \/ CallCreateCustomer
    \/ CallCreateSubscription
    \/ CallCancelSubscription
    \/ CallCheckEntitlement
    \/ CallGetUsageSummary
    \/ Complete
    \/ Forget

Spec == Init /\ [][Next]_vars

(***************************************************************************)
(* Properties of Client.request and the accessors                          *)
(***************************************************************************)
Returned    == pc = "returned"
GotResponse == Returned /\ resp # None /\ resp.kind = "response"

\* {code: string, message: string, field?: string}
ValidErrorRecord(d) ==
    /\ d.t = "obj"
    /\ HasKey(d, "code") /\ d.v["code"].t = "str"
    /\ HasKey(d, "message") /\ d.v["message"].t = "str"
    /\ HasKey(d, "field") => d.v["field"].t = "str"

\* C1: a response with status >= 400 and a valid structured error body gives
\* an *Error with the response's status and the body's code, message and
\* field (the empty string when the body has no field).
C1_StructuredError ==
    (GotResponse /\ resp.status >= 400 /\ ValidErrorRecord(resp.body)) =>
        /\ ret.err.type = "*Error"
        /\ ~ret.err.isNil
        /\ ret.err.StatusCode = resp.status
        /\ ret.err.Code = resp.body.v["code"].v
        /\ ret.err.Message = resp.body.v["message"].v
        /\ ret.err.Field = IF HasKey(resp.body, "field")
                           THEN resp.body.v["field"].v ELSE ""

C1_Witness ==
    /\ GotResponse /\ resp.status = 404
    /\ ValidErrorRecord(resp.body) /\ HasKey(resp.body, "field")
    /\ ret.err = APIError([StatusCode |-> 404, Code |-> "not_found",
                           Message |-> "no such customer", Field |-> "email"])

\* C2: a response with status >= 400 whose body is not a structured error
\* record (empty, not JSON, JSON of another shape) gives an *Error with the
\* response's status, the raw body as Message and the code "unknown_error".
C2_UnparseableGeneric ==
    (GotResponse /\ resp.status >= 400 /\ ~ValidErrorRecord(resp.body)) =>
        /\ ret.err.type = "*Error"
        /\ ret.err.StatusCode = resp.status
        /\ ret.err.Message = Raw(resp.body)
        /\ ret.err.Code = "unknown_error"

\* C3 as stated: a response with status < 400 gives no error; the result is
\* decoded exactly when one was supplied and the body is not empty, and is
\* left untouched otherwise.
C3_SuccessNoError ==
    (GotResponse /\ resp.status < 400) =>
        /\ ret.err = NilError
        /\ ret.decoded <=> (call.result.supplied /\ Raw(resp.body) # "")
        /\ ~ret.decoded => ret.result = call.result

\* C3 as amended: a response with status < 400 gives no error unless a
\* result was supplied and the non-empty body fails to decode, and then the
\* error is the wrapped "decode response" error and no *Error; json.Unmarshal
\* is applied to the result exactly when one was supplied and the body is
\* not empty, and the result is left untouched otherwise.
C3_SuccessDecodes ==
    (GotResponse /\ resp.status < 400) =>
        /\ ret.err # NilError <=>
              /\ call.result.supplied
              /\ Raw(resp.body) # ""
              /\ DecodeFails(resp.body, call.result.kind)
        /\ ret.err # NilError =>
              /\ ret.err.type = "*fmt.wrapError"
              /\ ret.err.msg = "decode response"
        /\ ret.decoded <=> (call.result.supplied /\ Raw(resp.body) # "")
        /\ ~ret.decoded => ret.result = call.result
        /\ (ret.decoded /\ ret.err = NilError) =>
              ret.value = Decode(resp.body, call.result.kind, call.result.value)

C3_Witness ==
    /\ GotResponse /\ resp.status = 200 /\ call.op = "GetCustomer"
    /\ ret.err = NilError /\ ret.decoded
    /\ ret.value = [ID |-> "cus_1", Email |-> "a@b.com"]

\* C4: a response with status >= 400 gives a non-nil error, leaves the
\* result unwritten, and the accessor returns a nil result.
C4_ErrorNeverDecodes ==
    (GotResponse /\ resp.status >= 400) =>
        /\ ret.err # NilError
        /\ ~ret.decoded
        /\ ret.result = call.result
        /\ ret.value = NilValue

C4_Witness ==
    /\ GotResponse /\ resp.status = 400 /\ call.op = "GetCustomer"
    /\ HasKey(resp.body, "id") /\ resp.body.v["id"].t = "str"
    /\ ret.value = NilValue /\ ret.err # NilError

\* C7 as stated: every invocation calls httpClient.Do exactly once.
C7_ExactlyOneCall == Returned => doCalls = 1

\* C7 as amended: an invocation calls httpClient.Do at most once: once when
\* the body was serialized and the request constructed, not at all when
\* either failed; never again after a transport failure or an error status.
C7_AtMostOneCall ==
    /\ doCalls <= 1
    /\ pc = "inflight" => doCalls = 1
    /\ (Returned /\ resp # None) => doCalls = 1
    /\ (Returned /\ resp = None) =>
          /\ doCalls = 0
          /\ ret.err.type = "*fmt.wrapError"
          /\ ret.err.msg \in {"marshal request body", "create request"}

C7_Witness ==
    /\ Returned /\ resp # None /\ resp.kind = "doError"
    /\ doCalls = 1 /\ ret.err.msg = "do request"

\* C8: a failure that is not an HTTP error status is no *Error, and the
\* three helpers answer false for it.
C8_TransportNotClassified ==
    (Returned /\ ret.err # NilError /\ ~(GotResponse /\ resp.status >= 400)) =>
        /\ ret.err.type # "*Error"
        /\ IsNotFound(ret.err) = Returns(FALSE)
        /\ IsValidationError(ret.err) = Returns(FALSE)
        /\ IsUnauthorized(ret.err) = Returns(FALSE)

C8_Witness ==
    /\ Returned /\ resp # None /\ resp.kind = "readError" /\ resp.status = 404
    /\ ret.err = Wrap("read response", resp.err)
    /\ IsNotFound(ret.err) = Returns(FALSE)

\* The fields of update params p the caller has set.
SetFields(kind, p) ==
    IF kind = "UpdateCustomerParams"
    THEN {k \in {"email", "name", "external_id", "metadata"} :
            CASE k = "email"       -> ~p.Email.isNil
              [] k = "name"        -> ~p.Name.isNil
              [] k = "external_id" -> ~p.ExternalID.isNil
              [] k = "metadata"    -> ~p.Metadata.isNil}
    ELSE {k \in {"key", "name", "description", "is_active"} :
            CASE k = "key"         -> ~p.Key.isNil
              [] k = "name"        -> ~p.Name.isNil
              [] k = "description" -> ~p.Description.isNil
              [] k = "is_active"   -> ~p.IsActive.isNil}

\* C10: an update call whose params set exactly one field sends a body with
\* the key of that field and no other key.
C10_PartialUpdate ==
    (/\ req # None
     /\ call.op \in {"UpdateCustomer", "UpdatePlan"}
     /\ call.body.params # NilParams
     /\ Cardinality(SetFields(call.body.kind, call.body.params)) = 1) =>
        /\ req.body.t = "obj"
        /\ DOMAIN req.body.v = SetFields(call.body.kind, call.body.params)

RECURSIVE URLText(_)
\* c.baseURL+path as the one string it is.
URLText(url) == IF url = <<>> THEN "" ELSE Head(url) \o URLText(Tail(url))

\* A JSON object with the string members id and email.
CustomerRecord(d) ==
    /\ HasKey(d, "id") /\ d.v["id"].t = "str"
    /\ HasKey(d, "email") /\ d.v["email"].t = "str"

\* Params of CreateCustomer in which Email is set and nothing else.
OnlyEmailSet(p) ==
    /\ p # NilParams
    /\ p.Email # "" /\ p.Name = "" /\ p.ExternalID = "" /\ p.Metadata = NilMap

\* C12: CreateCustomer with params in which only Email is set (and a context
\* that is not nil) issues one POST to the customers path of the surface
\* with the body {"email": <that email>} and no other key; when the answer
\* is a success whose body is an object with id and email, it returns no
\* error and a Customer with that id and that email.
C12_CreateCustomerEmailOnly ==
    (/\ pc \in {"inflight", "returned"}
     /\ call.op = "CreateCustomer"
     /\ call.ctx # "nil"
     /\ OnlyEmailSet(call.body.params)) =>
        /\ req # None /\ doCalls = 1
        /\ req.method = "POST"
        /\ URLText(req.url) = defaultBaseURL \o "/billing/v1/customers"
        /\ req.body = JObj([email |-> JStr(call.body.params.Email)])
        /\ Raw(req.body) = "{\"email\":\"" \o call.body.params.Email \o "\"}"
        /\ (GotResponse /\ resp.status < 400 /\ CustomerRecord(resp.body)) =>
              /\ ret.err = NilError
              /\ ret.value # NilValue
              /\ ret.value.ID = resp.body.v["id"].v
              /\ ret.value.Email = resp.body.v["email"].v

C12_Witness ==
    /\ GotResponse /\ resp.status = 200 /\ call.op = "CreateCustomer"
    /\ call.ctx # "nil" /\ OnlyEmailSet(call.body.params)
    /\ Raw(req.body) = "{\"email\":\"a@b.com\"}"
    /\ HasKey(resp.body, "code")
    /\ ret.value = [ID |-> "cus_1", Email |-> "a@b.com"]

\* C13: an accessor call that the server answers with status 404 and a
\* structured body {code, message} returns a nil result and an *Error on
\* which IsNotFound is true, IsValidationError and IsUnauthorized are false,
\* and whose Message is the body's message.
C13_NotFoundScenario ==
    (GotResponse /\ resp.status = 404 /\ ValidErrorRecord(resp.body)) =>
        /\ ret.value = NilValue
        /\ ret.err.type = "*Error"
        /\ IsNotFound(ret.err) = Returns(TRUE)
        /\ IsValidationError(ret.err) = Returns(FALSE)
        /\ IsUnauthorized(ret.err) = Returns(FALSE)
        /\ ret.err.Message = resp.body.v["message"].v

C13_Witness ==
    /\ GotResponse /\ resp.status = 404 /\ call.op = "GetCustomer"
    /\ resp.body = JObj([code |-> JStr("not_found"),
                         message |-> JStr("no such customer")])
    /\ ret.value = NilValue
    /\ IsNotFound(ret.err) = Returns(TRUE)
    /\ ret.err.Message = "no such customer"

\* The member that update params p send for key k when it is set.
SetValue(kind, p, k) ==
    IF kind = "UpdateCustomerParams"
    THEN CASE k = "email"       -> JStr(p.Email.v)
           [] k = "name"        -> JStr(p.Name.v)
           [] k = "external_id" -> JStr(p.ExternalID.v)
           [] k = "metadata"    -> MapDoc(p.Metadata.kv)
    ELSE CASE k = "key"         -> JStr(p.Key.v)
           [] k = "name"        -> JStr(p.Name.v)
           [] k = "description" -> JStr(p.Description.v)
           [] k = "is_active"   -> JBool(p.IsActive.v)

\* C16: the body of an update call holds the key of every field the caller
\* has set, with its value even when that is the zero value (empty string,
\* false, empty map), and the key of no field left unset.
C16_PresenceDecides ==
    (/\ req # None
     /\ call.op \in {"UpdateCustomer", "UpdatePlan"}
     /\ call.body.params # NilParams) =>
        /\ req.body.t = "obj"
        /\ DOMAIN req.body.v = SetFields(call.body.kind, call.body.params)
        /\ \A k \in SetFields(call.body.kind, call.body.params) :
              k \in DOMAIN req.body.v =>
                 req.body.v[k] = SetValue(call.body.kind, call.body.params, k)

\* The query ListCustomers is to send for params p, as one text.
ExpectedCustomersQuery(p) ==
    IF p = NilParams THEN ""
    ELSE LET l == IF p.Limit > 0 THEN "limit=" \o ToString(p.Limit) ELSE ""
             c == IF p.Cursor # "" THEN "cursor=" \o p.Cursor ELSE ""
         IN  IF l # "" /\ c # "" THEN "?" \o l \o "&" \o c
             ELSE IF l # "" \/ c # "" THEN "?" \o l \o c
             ELSE ""

\* C17: ListCustomers asks for the customers path followed by ?, limit=<n>
\* when Limit > 0 and cursor=<c> when Cursor is not empty, the two joined by
\* one & in that order, and for the bare path when neither is there or the
\* params are nil; GetUsageSummary asks for usage?subscription_id=<id>,
\* followed by &product_key=<k> when ProductKey is not empty.
C17_QueryAssembly ==
    /\ (req # None /\ call.op = "ListCustomers") =>
          URLText(req.url) = defaultBaseURL \o "/billing/v1/customers"
                               \o ExpectedCustomersQuery(call.args)
    /\ (req # None /\ call.op = "GetUsageSummary") =>
          URLText(req.url) =
             defaultBaseURL \o "/billing/v1/usage?subscription_id="
                \o call.args.SubscriptionID
                \o (IF call.args.ProductKey # ""
                    THEN "&product_key=" \o call.args.ProductKey ELSE "")
    /\ (pc \in {"inflight", "returned"} /\ call.ctx # "nil"
          /\ call.op \in {"ListCustomers", "GetUsageSummary"}) => req # None

C17_Witness ==
    /\ pc = "inflight" /\ call.op = "ListCustomers"
    /\ call.args = [Limit |-> 2, Cursor |-> "c2"]
    /\ URLText(req.url) =
          "https://api.tedo.ai/v1/billing/v1/customers?limit=2&cursor=c2"

\* C19: an accessor that returns (result pointer, error) returns a nil
\* result exactly when it returns an error, whatever the outcome of the
\* call; after a success with an empty body the result is the zero record.
C19_ResultXorError ==
    (Returned /\ call.result.supplied) =>
        /\ (ret.value = NilValue) <=> (ret.err # NilError)
        /\ (GotResponse /\ resp.status < 400 /\ Raw(resp.body) = "") =>
              /\ ret.err = NilError
              /\ ret.value = call.result.value
        /\ (resp = None \/ resp.kind # "response" \/ resp.status >= 400) =>
              ret.err # NilError
        /\ (GotResponse /\ resp.status < 400 /\ Raw(resp.body) # "") =>
              (ret.err # NilError <=> DecodeFails(resp.body, call.result.kind))

C19_Witness ==
    /\ GotResponse /\ resp.status = 204 /\ Raw(resp.body) = ""
    /\ call.op = "CancelSubscription"
    /\ ret.err = NilError /\ ret.value = ZeroSubscription

(***************************************************************************)
(* The classification helpers applied to an error value                    *)
(***************************************************************************)
APIErrors ==
    { APIError([StatusCode |-> s, Code |-> c, Message |-> m, Field |-> f]) :
        s \in {0, 200, 400, 401, 403, 404, 500},
        c \in {"not_found", "unknown_error"},
        m \in {"", "no such customer"},
        f \in {"", "email"} }

ErrorValues ==
    APIErrors
    \cup { Wrap("failed to create billing customer for user", e) : e \in APIErrors }
    \cup { NilError, NilAPIError, OtherError("dial tcp: i/o timeout"),
           Wrap("do request", OtherError("dial tcp: i/o timeout")) }

InitErr ==
    /\ client = NewClient(APIKey)
    /\ Idle
    /\ LoopAtRest
    /\ errArg \in ErrorValues
    /\ verdict = None
    /\ FlightsAtRest

\* The caller asks the three helpers about errArg.
Classify ==
    /\ verdict = None
    /\ verdict' = [notFound     |-> IsNotFound(errArg),
                   validation   |-> IsValidationError(errArg),
                   unauthorized |-> IsUnauthorized(errArg)]
    /\ UNCHANGED <<callVars, loopVars, errArg, flights>>

\* The caller goes on to another error value.
NextError ==
    /\ verdict # None
    /\ errArg' \in ErrorValues
    /\ verdict' = None
    /\ UNCHANGED <<callVars, loopVars, flights>>

NextErr == Classify \/ NextError

SpecErr == InitErr /\ [][NextErr]_vars

\* C5: for an *Error with status s the helpers answer s = 404, s = 400 and
\* s = 401; for an error that is no *Error all three answer false.
C5_Classification ==
    verdict # None =>
        /\ (errArg.type = "*Error" /\ ~errArg.isNil) =>
              /\ verdict.notFound     = Returns(errArg.StatusCode = 404)
              /\ verdict.validation   = Returns(errArg.StatusCode = 400)
              /\ verdict.unauthorized = Returns(errArg.StatusCode = 401)
        /\ errArg.type # "*Error" =>
              /\ verdict.notFound     = Returns(FALSE)
              /\ verdict.validation   = Returns(FALSE)
              /\ verdict.unauthorized = Returns(FALSE)

C5_Witness ==
    /\ verdict # None
    /\ errArg.type = "*Error" /\ ~errArg.isNil /\ errArg.StatusCode = 404
    /\ verdict.notFound = Returns(TRUE)
    /\ verdict.validation = Returns(FALSE)

\* C6: whatever error value they are given, the helpers return a boolean
\* and do not panic.
C6_HelpersTotal ==
    verdict # None =>
        /\ ~verdict.notFound.panics
        /\ ~verdict.validation.panics
        /\ ~verdict.unauthorized.panics

(***************************************************************************)
(* Pagination: the loop of the README against a server that pages a list   *)
(***************************************************************************)
MaxCustomers    == 4
MaxLimit        == 3
DefaultPageSize == 2

\* The server's list of n customers.
CustomerRoster(n) ==
    [i \in 1..n |-> [id |-> "cus_" \o ToString(i),
                     email |-> "u" \o ToString(i) \o "@b.com"]]

\* The customer struct a list item decodes to.
AsCustomer(c) == [ID |-> c.id, Email |-> c.email]

\* The server reads the query of the request's URL: the members between ?
\* and the end, separated by &, each a key and the text up to the next &.
QueryStart(url) ==
    IF \E i \in 1..Len(url) : url[i] = "?"
    THEN 1 + CHOOSE i \in 1..Len(url) :
                 url[i] = "?" /\ \A j \in 1..(i - 1) : url[j] # "?"
    ELSE Len(url) + 1

RECURSIVE ValueFrom(_, _)
ValueFrom(url, i) ==
    IF i > Len(url) \/ url[i] = "&" THEN ""
    ELSE url[i] \o ValueFrom(url, i + 1)

KeyAt(url, key, i) ==
    /\ i >= QueryStart(url) /\ i <= Len(url)
    /\ url[i] = key
    /\ i = QueryStart(url) \/ url[i - 1] = "&"

QueryParam(url, key) ==
    IF \E i \in 1..Len(url) : KeyAt(url, key, i)
    THEN ValueFrom(url, 1 + CHOOSE i \in 1..Len(url) :
                              KeyAt(url, key, i) /\ \A j \in 1..(i - 1) : ~KeyAt(url, key, j))
    ELSE ""

\* The opaque cursor the server gives for the page that starts after offset.
CursorOf(offset) == "c" \o ToString(offset)

\* The page size the server uses for a request: its limit if it reads as a
\* number, its default otherwise.
ServerLimit(url) ==
    LET l == QueryParam(url, "limit=")
    IN  IF \E n \in 1..MaxLimit : ToString(n) = l
        THEN CHOOSE n \in 1..MaxLimit : ToString(n) = l
        ELSE DefaultPageSize

Min(a, b) == IF a < b THEN a ELSE b

\* The server's answer to GET customers: the page at the cursor and, unless
\* it is the last, the cursor of the next page.
ServerListPage(list, url) ==
    LET c      == QueryParam(url, "cursor=")
        limit  == ServerLimit(url)
        known  == c = "" \/ \E o \in 0..Len(list) : CursorOf(o) = c
        offset == IF c = "" THEN 0
                  ELSE CHOOSE o \in 0..Len(list) : CursorOf(o) = c
        last   == Min(offset + limit, Len(list))
        page   == [i \in 1..(last - offset) |->
                     JObj([id    |-> JStr(list[offset + i].id),
                           email |-> JStr(list[offset + i].email)])]
    IN  IF ~known
        THEN Response(400, JObj([code |-> JStr("invalid_cursor"),
                                 message |-> JStr("unknown cursor")]))
        ELSE Response(200, JObj(Members({
                 <<"customers",   TRUE,             JArr(page)>>,
                 <<"total",       TRUE,             JNum(Len(list))>>,
                 <<"next_cursor", last < Len(list), JStr(CursorOf(last))>> })))

InitPaginate ==
    /\ client = NewClient(APIKey)
    /\ pc = "loop" /\ call = None /\ req = None /\ doCalls = 0
    /\ resp = None /\ ret = None
    /\ \E n \in 0..MaxCustomers : customers = CustomerRoster(n)
    /\ pageLimit \in 0..MaxLimit
    /\ cursor = ""
    /\ allCustomers = <<>>
    /\ requests = 0
    /\ HelpersAtRest
    /\ FlightsAtRest

\* `list, err := client.Billing.ListCustomers(ctx, &ListCustomersParams{
\*      Limit: ..., Cursor: cursor})`, up to httpClient.Do.
LoopCall ==
    /\ pc = "loop"
    /\ LET c == ListCustomers("ctx", [Limit |-> pageLimit, Cursor |-> cursor])
           s == RequestSend(client, c.ctx, c.method, c.path, c.body)
       IN  /\ call' = c
           /\ req' = s.req
           /\ requests' = requests + s.do
           /\ pc' = IF s.err = NilError THEN "waiting" ELSE "fatal"
    /\ resp' = None
    /\ UNCHANGED <<client, doCalls, ret, customers, pageLimit, cursor,
                   allCustomers, errVars, flights>>

\* The server answers the request in flight.
LoopReply ==
    /\ pc = "waiting"
    /\ resp' = ServerListPage(customers, req.url)
    /\ pc' = "replied"
    /\ UNCHANGED <<client, call, req, doCalls, ret, loopVars, errVars, flights>>

\* The request in flight fails: the transport, or the server with a 500.
LoopFailure ==
    /\ pc = "waiting"
    /\ resp' \in { DoError(OtherError("dial tcp: i/o timeout")),
                   Response(500, JInvalid("upstream timed out")) }
    /\ pc' = "replied"
    /\ UNCHANGED <<client, call, req, doCalls, ret, loopVars, errVars, flights>>

\* httpClient.Do returns and the iteration runs to its end: request and
\* ListCustomers return, `if err != nil { log.Fatal(err) }`, the append, and
\* the break or the next cursor.
LoopStep ==
    /\ pc = "replied"
    /\ LET r == AccessorReturn(call, RequestReceive(resp, call.result))
       IN  IF r.err # NilError
           THEN /\ pc' = "fatal"
                /\ UNCHANGED <<allCustomers, cursor>>
           ELSE /\ allCustomers' = allCustomers \o r.value.Customers
                /\ IF r.value.NextCursor = ""
                   THEN pc' = "done" /\ UNCHANGED cursor
                   ELSE pc' = "loop" /\ cursor' = r.value.NextCursor
    /\ UNCHANGED <<client, call, req, doCalls, resp, ret, customers, pageLimit,
                   requests, errVars, flights>>

NextPaginate == LoopCall \/ LoopReply \/ LoopFailure \/ LoopStep

\* The loop is sequential code, and the default http.Client times a request
\* out: an iteration that can go on does.
SpecPaginate ==
    /\ InitPaginate
    /\ [][NextPaginate]_vars
    /\ WF_vars(LoopCall)
    /\ WF_vars(LoopReply \/ LoopFailure)
    /\ WF_vars(LoopStep)

\* The pages the server splits its list into for the loop's limit.
PageSize == IF pageLimit > 0 THEN pageLimit ELSE DefaultPageSize
NumPages ==
    IF Len(customers) = 0 THEN 1
    ELSE (Len(customers) + PageSize - 1) \div PageSize

ServerOrder == [i \in 1..Len(customers) |-> AsCustomer(customers[i])]

NumCallers == 2
Callers    == 1..NumCallers

\* request with the key struck from the client once the header is set.
ClientAfterRequest_KeyCleared(c) == [c EXCEPT !.apiKey = ""]

\* The client as an invocation of request leaves it: request reads
\* c.baseURL, c.apiKey and c.httpClient and assigns to no field of c, and
\* no accessor touches s.client but to call request on it.
ClientAfterRequest(c) == c

IdleFlight ==
    [pc |-> "idle", call |-> None, seen |-> None, req |-> None,
     resp |-> None, ret |-> None]

ConcurrentCalls ==
    { GetCustomer("ctx", "cus_1"), GetCustomer("nil", "cus_1"),
      DeleteCustomer("ctx", "cus_1"),
      UpdateCustomer("ctx", "cus_1",
                     [Email |-> Ptr("a@b.com"), Name |-> Nil,
                      ExternalID |-> Nil, Metadata |-> NilMap]) }

ConcurrentOutcomes ==
    { DoError(OtherError("dial tcp: i/o timeout")),
      Response(200, JObj([id |-> JStr("cus_1"), email |-> JStr("a@b.com")])),
      Response(404, JObj([code |-> JStr("not_found"),
                          message |-> JStr("no such customer")])) }

InitConcurrent ==
    /\ client = NewClient(APIKey)
    /\ Idle
    /\ LoopAtRest
    /\ HelpersAtRest
    /\ flights = [p \in Callers |-> IdleFlight]

\* Goroutine p calls an accessor; request marshals the body and builds the
\* request from c.baseURL as it is now, or returns the error of either.
FlightBuild(p) ==
    /\ flights[p].pc = "idle"
    /\ \E c \in ConcurrentCalls :
          LET s == RequestSend(client, c.ctx, c.method, c.path, c.body)
          IN  flights' = [flights EXCEPT ![p] =
                IF s.err = NilError
                THEN [IdleFlight EXCEPT !.pc = "built", !.call = c,
                                        !.seen = [baseURL |-> client.baseURL]]
                ELSE [IdleFlight EXCEPT !.pc = "returned", !.call = c,
                         !.ret = AccessorReturn(c, [err |-> s.err,
                                                    result |-> c.result,
                                                    decoded |-> FALSE])]]
    /\ UNCHANGED <<callVars, loopVars, errVars>>

\* Goroutine p sets the headers from c.apiKey as it is now.
FlightHeaders(p) ==
    /\ flights[p].pc = "built"
    /\ flights' = [flights EXCEPT ![p].pc = "headers",
                                  ![p].seen = [baseURL |-> @.baseURL,
                                               apiKey  |-> client.apiKey]]
    /\ client' = ClientAfterRequest(client)
    /\ UNCHANGED <<pc, call, req, doCalls, resp, ret, loopVars, errVars>>

\* Goroutine p hands the request to c.httpClient as it is now.
FlightDo(p) ==
    /\ flights[p].pc = "headers"
    /\ LET f == flights[p]
           c == [apiKey |-> f.seen.apiKey, baseURL |-> f.seen.baseURL,
                 httpClient |-> client.httpClient]
       IN  flights' = [flights EXCEPT
                ![p].pc = "inflight",
                ![p].req = RequestSend(c, f.call.ctx, f.call.method,
                                       f.call.path, f.call.body).req]
    /\ UNCHANGED <<callVars, loopVars, errVars>>

\* httpClient.Do returns to goroutine p; request and the accessor return.
FlightReturn(p) ==
    /\ flights[p].pc = "inflight"
    /\ \E o \in ConcurrentOutcomes :
          flights' = [flights EXCEPT
                ![p].pc = "returned",
                ![p].resp = o,
                ![p].ret = AccessorReturn(flights[p].call,
                              RequestReceive(o, flights[p].call.result))]
    /\ UNCHANGED <<callVars, loopVars, errVars>>

\* Goroutine p is done with what it was returned.
FlightForget(p) ==
    /\ flights[p].pc = "returned"
    /\ flights' = [flights EXCEPT ![p] = IdleFlight]
    /\ UNCHANGED <<callVars, loopVars, errVars>>

NextConcurrent ==
    \E p \in Callers :
        \/ FlightBuild(p)
        \/ FlightHeaders(p)
        \/ FlightDo(p)
        \/ FlightReturn(p)
        \/ FlightForget(p)

SpecConcurrent == InitConcurrent /\ [][NextConcurrent]_vars

\* The request a call hands to the transport when it runs alone on a fresh
\* client, and what it then returns for outcome o (None: request returned
\* before it reached the transport).
AloneSend(c) == RequestSend(NewClient(APIKey), c.ctx, c.method, c.path, c.body)
AloneReturn(c, o) ==
    IF AloneSend(c).err # NilError
    THEN AccessorReturn(c, [err |-> AloneSend(c).err, result |-> c.result,
                            decoded |-> FALSE])
    ELSE AccessorReturn(c, RequestReceive(o, c.result))

\* C11: no step of a call writes to the client (apiKey, baseURL, httpClient,
\* Billing), and however the calls of several goroutines interleave, the
\* request of each (method, URL, headers, body) and what it returns are
\* those of the same call running alone.
C11_SharedClientUnwritten ==
    /\ [][client' = client]_vars
    /\ [](\A p \in Callers :
            /\ flights[p].pc \in {"inflight", "returned"} =>
                  /\ flights[p].req = AloneSend(flights[p].call).req
                  /\ (flights[p].req = None) = (flights[p].resp = None
                                                /\ flights[p].pc = "returned")
            /\ flights[p].pc = "returned" =>
                  flights[p].ret = AloneReturn(flights[p].call, flights[p].resp))

C11_Witness ==
    /\ flights[1].pc = "returned" /\ flights[2].pc = "inflight"
    /\ flights[1].call.op = "UpdateCustomer"
    /\ flights[2].call.op = "GetCustomer"
    /\ flights[1].req.body = JObj([email |-> JStr("a@b.com")])
    /\ flights[1].ret.err = NilError
    /\ flights[2].req.Authorization = "Bearer " \o APIKey

(***************************************************************************)
(* The convenience wrappers                                                *)
(***************************************************************************)
GuestPlanKey  == "guest"
GuestPriceKey == "guest_monthly_EUR"
FreePlanKey   == "free"
FreePriceKey  == "free_monthly_EUR"
BasicPlanKey  == "basic"
BasicPriceKey == "basic_monthly_EUR"

\* A wrapper called with args: the call of the primary accessor it makes,
\* and, for the wrappers that return (string, error), the text they put in
\* front of the primary's error ("" for those that return what the primary
\* returns).
Wrapper(op, ctx, args, inner, prefix) ==
    [op |-> op, ctx |-> ctx, args |-> args, inner |-> inner, prefix |-> prefix,
     result |-> inner.result]

CreateCustomerForUser(ctx, userID, email, name) ==
    Wrapper("CreateCustomerForUser", ctx,
            [userID |-> userID, email |-> email, name |-> name],
            CreateCustomer(ctx, [Email      |-> email,
                                 Name       |-> name,
                                 ExternalID |-> "user:" \o ToString(userID),
                                 Metadata   |-> NilMap]),
            "failed to create billing customer for user")

\* createSubscriptionWithPlan with the price key sent as price_id.
createSubscriptionWithPlan_AsPriceID(ctx, customerID, planKey, priceKey) ==
    CreateSubscription(ctx, [CustomerID |-> customerID, PriceID |-> priceKey,
                             PlanKey |-> planKey, PriceKey |-> "",
                             Quantity |-> 0, Metadata |-> NilMap])

\* The call of CreateSubscription that createSubscriptionWithPlan makes.
createSubscriptionWithPlan(ctx, customerID, planKey, priceKey) ==
    CreateSubscription(ctx, [CustomerID |-> customerID, PriceID |-> "",
                             PlanKey |-> planKey, PriceKey |-> priceKey,
                             Quantity |-> 0, Metadata |-> NilMap])

CreateSubscriptionForWorkspace(ctx, customerID, workspaceID) ==
    Wrapper("CreateSubscriptionForWorkspace", ctx,
            [customerID |-> customerID, workspaceID |-> workspaceID],
            createSubscriptionWithPlan(ctx, customerID, FreePlanKey, FreePriceKey),
            "failed to create subscription")

CreateSubscriptionForGuestWorkspace(ctx, customerID, workspaceID) ==
    Wrapper("CreateSubscriptionForGuestWorkspace", ctx,
            [customerID |-> customerID, workspaceID |-> workspaceID],
            createSubscriptionWithPlan(ctx, customerID, GuestPlanKey, GuestPriceKey),
            "failed to create subscription")

CreateSubscriptionForBasicPlan(ctx, customerID) ==
    Wrapper("CreateSubscriptionForBasicPlan", ctx,
            [customerID |-> customerID],
            createSubscriptionWithPlan(ctx, customerID, BasicPlanKey, BasicPriceKey),
            "failed to create subscription")

RecordUsageByKey(ctx, subscriptionID, productKey, quantity, idempotencyKey) ==
    Wrapper("RecordUsageByKey", ctx,
            [subscriptionID |-> subscriptionID, productKey |-> productKey,
             quantity |-> quantity, idempotencyKey |-> idempotencyKey],
            RecordUsage(ctx, [SubscriptionID |-> subscriptionID,
                              ProductKey     |-> productKey,
                              Quantity       |-> quantity,
                              Timestamp      |-> Nil,
                              IdempotencyKey |-> idempotencyKey]),
            "")

CheckEntitlementByKey(ctx, customerID, entitlementKey) ==
    Wrapper("CheckEntitlementByKey", ctx,
            [customerID |-> customerID, entitlementKey |-> entitlementKey],
            CheckEntitlement(ctx, [CustomerID     |-> customerID,
                                   EntitlementKey |-> entitlementKey]),
            "")

GetUsageSummaryByKey(ctx, subscriptionID, productKey) ==
    Wrapper("GetUsageSummaryByKey", ctx,
            [subscriptionID |-> subscriptionID, productKey |-> productKey],
            GetUsageSummary(ctx, [SubscriptionID |-> subscriptionID,
                                  ProductKey     |-> productKey]),
            "")

\* A wrapper that hands the primary's error on as it is.
WrapperReturn_ErrorUnwrapped(w, r) ==
    IF w.prefix = "" THEN [value |-> r.value, err |-> r.err, primary |-> r]
    ELSE IF r.err # NilError
         THEN [value |-> "", err |-> r.err, primary |-> r]
         ELSE [value |-> r.value.ID, err |-> NilError, primary |-> r]

\* What the wrapper returns when the primary has returned r: r itself, or
\* `if err != nil { return "", fmt.Errorf("<prefix>: %w", err) }` and
\* `return x.ID, nil`.
WrapperReturn(w, r) ==
    IF w.prefix = "" THEN [value |-> r.value, err |-> r.err, primary |-> r]
    ELSE IF r.err # NilError
         THEN [value |-> "", err |-> Wrap(w.prefix, r.err), primary |-> r]
         ELSE [value |-> r.value.ID, err |-> NilError, primary |-> r]

UserIDs      == {7, -1}
WorkspaceIDs == {"ws_1", "ws_2"}

SugarOutcomes ==
    { DoError(OtherError("dial tcp: i/o timeout")) }
    \cup { Response(s, b) :
             s \in {200, 400, 401, 404, 500},
             b \in { JInvalid(""), JInvalid("upstream timed out"),
                     JObj([id |-> JStr("obj_1"), email |-> JStr("a@b.com")]),
                     JObj([code |-> JStr("invalid_email"),
                           message |-> JStr("email is not valid"),
                           field |-> JStr("email")]) } }

\* The wrapper is called and calls its primary accessor: request runs up to
\* httpClient.Do, or returns an error that the wrapper hands to its caller.
SugarBegin(w) ==
    /\ pc = "idle"
    /\ LET c == w.inner
           s == RequestSend(client, c.ctx, c.method, c.path, c.body)
       IN  /\ call' = w
           /\ req' = s.req
           /\ doCalls' = s.do
           /\ resp' = None
           /\ IF s.err = NilError
              THEN pc' = "inflight" /\ ret' = None
              ELSE /\ pc' = "returned"
                   /\ ret' = WrapperReturn(w,
                                AccessorReturn(c, [err |-> s.err, result |-> c.result,
                                                   decoded |-> FALSE]))
    /\ UNCHANGED <<client, loopVars, errVars, flights>>

CallCreateCustomerForUser ==
    \E ctx \in Ctxs, u \in UserIDs, name \in {"", "Acme"} :
        SugarBegin(CreateCustomerForUser(ctx, u, "a@b.com", name))

CallCreateSubscriptionForWorkspace ==
    \E ctx \in Ctxs, cus \in {"", "cus_1"}, ws \in WorkspaceIDs :
        SugarBegin(CreateSubscriptionForWorkspace(ctx, cus, ws))

CallCreateSubscriptionForGuestWorkspace ==
    \E ctx \in Ctxs, cus \in {"", "cus_1"}, ws \in WorkspaceIDs :
        SugarBegin(CreateSubscriptionForGuestWorkspace(ctx, cus, ws))

CallCreateSubscriptionForBasicPlan ==
    \E ctx \in Ctxs, cus \in {"", "cus_1"} :
        SugarBegin(CreateSubscriptionForBasicPlan(ctx, cus))

CallRecordUsageByKey ==
    \E ctx \in Ctxs, k \in {"", "api_calls"}, q \in {0, 5}, i \in {"", "idem_1"} :
        SugarBegin(RecordUsageByKey(ctx, "sub_1", k, q, i))

CallCheckEntitlementByKey ==
    \E ctx \in Ctxs, k \in {"", "seats"} :
        SugarBegin(CheckEntitlementByKey(ctx, "cus_1", k))

CallGetUsageSummaryByKey ==
    \E ctx \in Ctxs, sub \in {"", "sub_1"}, k \in {"", "api_calls"} :
        SugarBegin(GetUsageSummaryByKey(ctx, sub, k))

\* httpClient.Do returns; request, the primary and the wrapper return.
SugarComplete ==
    /\ pc = "inflight"
    /\ \E o \in SugarOutcomes :
          /\ resp' = o
          /\ ret' = WrapperReturn(call,
                        AccessorReturn(call.inner,
                                       RequestReceive(o, call.inner.result)))
          /\ doCalls' = doCalls + Retries(o)
    /\ pc' = "returned"
    /\ UNCHANGED <<client, call, req, loopVars, errVars, flights>>

NextSugar ==
    \/ CallCreateCustomerForUser
    \/ CallCreateSubscriptionForWorkspace
    \/ CallCreateSubscriptionForGuestWorkspace
    \/ CallCreateSubscriptionForBasicPlan
    \/ CallRecordUsageByKey
    \/ CallCheckEntitlementByKey
    \/ CallGetUsageSummaryByKey
    \/ SugarComplete
    \/ Forget

SpecSugar == Init /\ [][NextSugar]_vars

\* What request hands to the transport for accessor call c on the client.
Sent(c) == RequestSend(client, c.ctx, c.method, c.path, c.body)

\* Params of CreateSubscription with the customer and a (plan_key,
\* price_key) pair filled in and nothing else.
SubscriptionOn(customerID, planKey, priceKey) ==
    [CustomerID |-> customerID, PriceID |-> "", PlanKey |-> planKey,
     PriceKey |-> priceKey, Quantity |-> 0, Metadata |-> NilMap]

\* The primary operation, with its params filled in, that wrapper call w
\* stands for.
ExpectedPrimary(w) ==
    CASE w.op = "CreateSubscriptionForWorkspace" ->
            CreateSubscription(w.ctx, SubscriptionOn(w.args.customerID,
                                                     "free", "free_monthly_EUR"))
      [] w.op = "CreateSubscriptionForGuestWorkspace" ->
            CreateSubscription(w.ctx, SubscriptionOn(w.args.customerID,
                                                     "guest", "guest_monthly_EUR"))
      [] w.op = "CreateSubscriptionForBasicPlan" ->
            CreateSubscription(w.ctx, SubscriptionOn(w.args.customerID,
                                                     "basic", "basic_monthly_EUR"))
      [] w.op = "CreateCustomerForUser" ->
            CreateCustomer(w.ctx, [Email |-> w.args.email, Name |-> w.args.name,
                                   ExternalID |-> "user:" \o ToString(w.args.userID),
                                   Metadata |-> NilMap])
      [] w.op = "RecordUsageByKey" ->
            RecordUsage(w.ctx, [SubscriptionID |-> w.args.subscriptionID,
                                ProductKey     |-> w.args.productKey,
                                Quantity       |-> w.args.quantity,
                                Timestamp      |-> Nil,
                                IdempotencyKey |-> w.args.idempotencyKey])
      [] w.op = "CheckEntitlementByKey" ->
            CheckEntitlement(w.ctx, [CustomerID     |-> w.args.customerID,
                                     EntitlementKey |-> w.args.entitlementKey])
      [] w.op = "GetUsageSummaryByKey" ->
            GetUsageSummary(w.ctx, [SubscriptionID |-> w.args.subscriptionID,
                                    ProductKey     |-> w.args.productKey])

IDWrappers ==
    { "CreateCustomerForUser", "CreateSubscriptionForWorkspace",
      "CreateSubscriptionForGuestWorkspace", "CreateSubscriptionForBasicPlan" }

\* The (plan_key, price_key) pair of a subscription wrapper.
TierOf(op) ==
    CASE op = "CreateSubscriptionForWorkspace"      -> <<"free", "free_monthly_EUR">>
      [] op = "CreateSubscriptionForGuestWorkspace" -> <<"guest", "guest_monthly_EUR">>
      [] op = "CreateSubscriptionForBasicPlan"      -> <<"basic", "basic_monthly_EUR">>

\* C14: a wrapper issues the request its primary operation issues with the
\* params filled in, and no other (none when the primary issues none): the
\* subscription wrappers POST subscriptions with customer_id and their
\* (plan_key, price_key) pair, whatever the workspace; CreateCustomerForUser
\* POSTs customers with external_id "user:<userID>"; the ByKey wrappers send
\* the request of RecordUsage, CheckEntitlement and GetUsageSummary and
\* return what these return; on success the wrappers that return an id
\* return the id of the decoded response.
C14_WrappersAreSugar ==
    (pc \in {"inflight", "returned"}) =>
        /\ req = Sent(ExpectedPrimary(call)).req
        /\ doCalls = Sent(ExpectedPrimary(call)).do
        /\ (req # None /\ call.op \in IDWrappers \ {"CreateCustomerForUser"}) =>
              /\ req.method = "POST"
              /\ URLText(req.url) = defaultBaseURL \o "/billing/v1/subscriptions"
              /\ req.body = JObj([customer_id |-> JStr(call.args.customerID),
                                  plan_key    |-> JStr(TierOf(call.op)[1]),
                                  price_key   |-> JStr(TierOf(call.op)[2])])
        /\ (req # None /\ call.op = "CreateCustomerForUser") =>
              /\ req.method = "POST"
              /\ URLText(req.url) = defaultBaseURL \o "/billing/v1/customers"
              /\ req.body.v["external_id"] =
                    JStr("user:" \o ToString(call.args.userID))
              /\ req.body.v["email"] = JStr(call.args.email)
        /\ Returned =>
              /\ ret.primary =
                    IF resp = None
                    THEN AccessorReturn(ExpectedPrimary(call),
                                        [err |-> Sent(ExpectedPrimary(call)).err,
                                         result |-> call.result, decoded |-> FALSE])
                    ELSE AccessorReturn(ExpectedPrimary(call),
                                        RequestReceive(resp, call.result))
              /\ call.op \notin IDWrappers =>
                    ret.value = ret.primary.value /\ ret.err = ret.primary.err
              /\ (call.op \in IDWrappers /\ ret.primary.err = NilError) =>
                    /\ ret.err = NilError
                    /\ ret.value = Decode(resp.body, call.result.kind,
                                          call.result.value).ID
                    /\ (HasKey(resp.body, "id") /\ resp.body.v["id"].t = "str") =>
                          ret.value = resp.body.v["id"].v

C14_Witness ==
    /\ GotResponse /\ resp.status = 200
    /\ call.op = "CreateSubscriptionForGuestWorkspace"
    /\ call.args.workspaceID = "ws_2"
    /\ req.body = JObj([customer_id |-> JStr("cus_1"), plan_key |-> JStr("guest"),
                        price_key |-> JStr("guest_monthly_EUR")])
    /\ ret.value = "obj_1" /\ ret.err = NilError

\* C15: when the server answers the request of a wrapper that returns an id
\* with status 400, 401 or 404, the three helpers answer for the wrapper's
\* error what they answer for the error of the primary operation.
C15_WrappersKeepClassification ==
    (GotResponse /\ resp.status \in {400, 401, 404} /\ call.op \in IDWrappers) =>
        /\ IsValidationError(ret.err) = IsValidationError(ret.primary.err)
        /\ IsUnauthorized(ret.err) = IsUnauthorized(ret.primary.err)
        /\ IsNotFound(ret.err) = IsNotFound(ret.primary.err)

(***************************************************************************)
(* Configuring the client: WithBaseURL and WithHTTPClient                  *)
(***************************************************************************)
\* A nil *http.Client.
NilHTTPClient == [isNil |-> TRUE]

\* WithBaseURL building a fresh client around the URL.
WithBaseURL_FreshClient(c, url) ==
    [self     |-> [NewClient(c.apiKey) EXCEPT !.baseURL = url],
     returned |-> c.Billing.client]

\* `c.baseURL = url; return c` on the receiver c: the Client as it is left,
\* and the pointer returned, which is the receiver (the address NewClient
\* returned and stored in Billing).
WithBaseURL(c, url) ==
    [self     |-> [c EXCEPT !.baseURL = url],
     returned |-> ClientAddr]

\* `c.httpClient = httpClient; return c`
WithHTTPClient(c, httpClient) ==
    [self     |-> [c EXCEPT !.httpClient = httpClient],
     returned |-> ClientAddr]

BaseURLs    == {"http://localhost:8080", "", BadEscape}
HTTPClients == {[Timeout |-> 5], [Timeout |-> 0], NilHTTPClient}

ConfigCalls ==
    { GetCustomer(ctx, "cus_1") : ctx \in Ctxs }
    \cup { DeleteCustomer("ctx", "cus_1"),
           CreateCustomer("ctx", [Email |-> "a@b.com", Name |-> "",
                                  ExternalID |-> "", Metadata |-> NilMap]) }

ConfigOutcomes ==
    { DoError(OtherError("unsupported protocol scheme")),
      Response(200, JObj([id |-> JStr("cus_1"), email |-> JStr("a@b.com")])),
      Response(401, JObj([code |-> JStr("unauthorized"),
                          message |-> JStr("bad key")])) }

\* `client.WithBaseURL(url)` between two requests.
CallWithBaseURL ==
    /\ pc = "idle"
    /\ \E url \in BaseURLs :
          /\ client' = WithBaseURL(client, url).self
          /\ call' = [op |-> "WithBaseURL", args |-> url]
          /\ ret' = [value |-> WithBaseURL(client, url).returned]
    /\ pc' = "returned"
    /\ UNCHANGED <<req, doCalls, resp, loopVars, errVars, flights>>

\* `client.WithHTTPClient(httpClient)` between two requests.
CallWithHTTPClient ==
    /\ pc = "idle"
    /\ \E h \in HTTPClients :
          /\ client' = WithHTTPClient(client, h).self
          /\ call' = [op |-> "WithHTTPClient", args |-> h]
          /\ ret' = [value |-> WithHTTPClient(client, h).returned]
    /\ pc' = "returned"
    /\ UNCHANGED <<req, doCalls, resp, loopVars, errVars, flights>>

\* An accessor is called through client.Billing.
ConfigCall == \E c \in ConfigCalls : Begin(c)

\* c.httpClient.Do(req) on a nil *http.Client dereferences nil.
DoPanics ==
    /\ pc = "inflight"
    /\ client.httpClient = NilHTTPClient
    /\ pc' = "panicked"
    /\ UNCHANGED <<client, call, req, doCalls, resp, ret, loopVars, errVars,
                   flights>>

\* httpClient.Do returns; request and the accessor return.
ConfigComplete ==
    /\ pc = "inflight"
    /\ client.httpClient # NilHTTPClient
    /\ \E o \in ConfigOutcomes :
          /\ resp' = o
          /\ ret' = AccessorReturn(call, RequestReceive(o, call.result))
          /\ doCalls' = doCalls + Retries(o)
    /\ pc' = "returned"
    /\ UNCHANGED <<client, call, req, loopVars, errVars, flights>>

NextConfig ==
    \/ CallWithBaseURL
    \/ CallWithHTTPClient
    \/ ConfigCall
    \/ DoPanics
    \/ ConfigComplete
    \/ Forget

SpecConfig == Init /\ [][NextConfig]_vars

\* The step is the call of the With method named op.
WithStep(op) == pc = "idle" /\ pc' = "returned" /\ call'.op = op

\* C18: the client starts with the default base URL and the key it was
\* made with; the key and Billing never change; WithBaseURL sets the base
\* URL, WithHTTPClient the HTTP client, each leaves the other alone and
\* returns the client Billing refers to; no other step changes the client;
\* so every request is built from the base URL and handed to the HTTP
\* client as they were last set, with Authorization "Bearer <key>".
C18_Configuration ==
    /\ client.baseURL = defaultBaseURL /\ client.apiKey = APIKey
    /\ [][/\ client'.apiKey = client.apiKey
          /\ client'.Billing = client.Billing
          /\ WithStep("WithBaseURL") =>
                /\ client'.baseURL = call'.args
                /\ client'.httpClient = client.httpClient
                /\ ret'.value = client.Billing.client
          /\ WithStep("WithHTTPClient") =>
                /\ client'.httpClient = call'.args
                /\ client'.baseURL = client.baseURL
                /\ ret'.value = client.Billing.client
          /\ ~(WithStep("WithBaseURL") \/ WithStep("WithHTTPClient")) =>
                client' = client]_vars
    /\ [](req # None =>
            /\ URLText(req.url) = client.baseURL \o URLText(call.path)
            /\ req.via = client.httpClient
            /\ req.Authorization = "Bearer " \o APIKey)

C18_Witness ==
    /\ GotResponse /\ resp.status = 200 /\ call.op = "GetCustomer"
    /\ client.baseURL = "http://localhost:8080"
    /\ client.httpClient = [Timeout |-> 5]
    /\ URLText(req.url) = "http://localhost:8080/billing/v1/customers/cus_1"
    /\ req.via = [Timeout |-> 5]
    /\ req.Authorization = "Bearer tedo_live_xxx"

====
